---------------------------- MODULE Spec2Model ----------------------------
(***************************************************************************)
(* Model of the interactive questionnaire session of xlsx_qa               *)
(* (src/xlsx_qa/session.py) over catalog records (src/xlsx_qa/domain.py).  *)
(*                                                                         *)
(* A Python str is a sequence of one-character strings; Optional[T] is the *)
(* empty sequence (None) or a one-element sequence holding the value.      *)
(* One step of the session is one blocking io.read of a console line,      *)
(* together with everything the code does until the next read.             *)
(***************************************************************************)
EXTENDS Integers, Sequences, FiniteSets, TLC

VARIABLES
    question_records, \* run: the question_records argument, as handed in
    records,         \* run: records = list(question_records), mutated in place
    default_answers, \* run: default_answers, text_location -> proposed text
    start_index,     \* run: start_index argument
    index,           \* run: index, the cursor
    pc,              \* where run is: "start", "answer", "location", "done"
    header,          \* _display_header: number of the question last rendered
    default_answer,  \* run: default_answer handed to _prompt_answer
    lines,           \* _prompt_answer: lines collected so far
    empty_streak,    \* _prompt_answer: empty_streak
    raw_input,       \* the line most recently returned by io.read
    reads,           \* how many lines io.read has returned so far
    prompt_result,   \* run: prompt_result (AnswerPromptResult)
    suggestion,      \* _prompt_location: suggestion
    location,        \* run: location (LocationPromptResult)
    result,          \* the SessionResult run returned, None while it runs
    cycles,          \* run: how many times the body of the while loop was
                     \* entered, that is how many question headers were rendered
    config,          \* XLSXQuestionnaireApp.run: config (AppConfig)
    base_records,    \* XLSXQuestionnaireApp.run: base_records, freshly extracted
    existing_records, \* XLSXQuestionnaireApp.run: existing_records, the loaded
                     \* catalog: a dict, kept as its items in insertion order
    merged_records,  \* XLSXQuestionnaireApp.run: merged_records
    catalog_file,    \* the catalog CSV on disk: None, or its text
    files,  \* the workbook files on disk, path -> cell values
    app_pc,          \* where the program is
    exit_code,       \* what main returned, None while it runs
    stdout,          \* what the program has reported so far, in order
    runs             \* how many times the program has been started

session_vars == <<question_records, records, default_answers, start_index, index,
                  pc, header, default_answer, lines, empty_streak, raw_input,
                  reads, prompt_result, suggestion, location, result, cycles>>

app_vars == <<config, base_records, existing_records, merged_records,
              catalog_file, files, app_pc, exit_code, stdout, runs>>

vars == <<question_records, records, default_answers, start_index, index, pc, header,
          default_answer, lines, empty_streak, raw_input, reads,
          prompt_result, suggestion, location, result, cycles,
          config, base_records, existing_records, merged_records,
          catalog_file, files, app_pc, exit_code, stdout, runs>>

-----------------------------------------------------------------------------
(* Bounds of the model *)

\* number of question records handed to the session
NumRecords == 2
\* number of lines the console supplies to one session
MaxReads == 8

-----------------------------------------------------------------------------
(* Python values *)

None == <<>>
Some(v) == <<v>>
Val(o) == o[1]

\* truthiness of an Optional[str]: None and "" are falsy
Truthy(o) == o # <<>> /\ o[1] # <<>>

\* Python's `a or b` on Optional[str]
PyOr(a, b) == IF Truthy(a) THEN a ELSE b

Max(a, b) == IF a >= b THEN a ELSE b

UpperLetters == <<"A","B","C","D","E","F","G","H","I","J","K","L","M",
                  "N","O","P","Q","R","S","T","U","V","W","X","Y","Z">>
LowerLetters == <<"a","b","c","d","e","f","g","h","i","j","k","l","m",
                  "n","o","p","q","r","s","t","u","v","w","x","y","z">>
Digits == {"0","1","2","3","4","5","6","7","8","9"}

\* characters str.strip() removes
Whitespace == {" ", "\n", "\t"}

LetterIndex(c) ==
    IF \E i \in 1..26 : UpperLetters[i] = c
    THEN CHOOSE i \in 1..26 : UpperLetters[i] = c
    ELSE IF \E i \in 1..26 : LowerLetters[i] = c
         THEN CHOOSE i \in 1..26 : LowerLetters[i] = c
         ELSE 0

\* str.lower()
lower(s) ==
    [i \in 1..Len(s) |->
        IF \E k \in 1..26 : UpperLetters[k] = s[i]
        THEN LowerLetters[LetterIndex(s[i])]
        ELSE s[i]]

RECURSIVE lstrip(_)
lstrip(s) ==
    IF s = <<>> THEN <<>>
    ELSE IF Head(s) \in Whitespace THEN lstrip(Tail(s)) ELSE s

RECURSIVE rstrip(_)
rstrip(s) ==
    IF s = <<>> THEN <<>>
    ELSE IF s[Len(s)] \in Whitespace
         THEN rstrip(SubSeq(s, 1, Len(s) - 1))
         ELSE s

\* str.strip()
strip(s) == rstrip(lstrip(s))

\* "\n".join(ls)
RECURSIVE join(_)
join(ls) ==
    IF ls = <<>> THEN <<>>
    ELSE IF Len(ls) = 1 THEN ls[1]
         ELSE ls[1] \o <<"\n">> \o join(Tail(ls))

replace_escapes_first_only(s) ==
    LET at == { i \in 1..(Len(s) - 1) : s[i] = "\\" /\ s[i + 1] = "n" } IN
    IF at = {} THEN s
    ELSE LET i == CHOOSE i \in at : \A j \in at : i <= j IN
         SubSeq(s, 1, i - 1) \o <<"\n">> \o SubSeq(s, i + 2, Len(s))

\* s.replace("\\n", "\n"): every backslash followed by n becomes a line break
RECURSIVE replace_escapes(_)
replace_escapes(s) ==
    IF s = <<>> THEN <<>>
    ELSE IF Len(s) >= 2 /\ s[1] = "\\" /\ s[2] = "n"
         THEN <<"\n">> \o replace_escapes(SubSeq(s, 3, Len(s)))
         ELSE <<s[1]>> \o replace_escapes(Tail(s))


-----------------------------------------------------------------------------
(* _suggest_response_location *)

\* the characters of s that satisfy str.isalpha / str.isdigit, in order
column_part(s) == SelectSeq(s, LAMBDA c : LetterIndex(c) # 0)
row_part(s) == SelectSeq(s, LAMBDA c : c \in Digits)

\* for char in column_part.upper(): column_index = column_index * 26 + ...
RECURSIVE column_index(_)
column_index(cs) ==
    IF cs = <<>> THEN 0
    ELSE column_index(SubSeq(cs, 1, Len(cs) - 1)) * 26 + LetterIndex(cs[Len(cs)])

\* the remainder taken from column_index - 1, the quotient from column_index
RECURSIVE column_letters_quotient_of_index(_)
column_letters_quotient_of_index(n) ==
    IF n <= 0 THEN <<>>
    ELSE column_letters_quotient_of_index(n \div 26) \o <<UpperLetters[((n - 1) % 26) + 1]>>

\* while column_index > 0: column_index, remainder = divmod(column_index - 1, 26)
RECURSIVE column_letters(_)
column_letters(n) ==
    IF n <= 0 THEN <<>>
    ELSE column_letters((n - 1) \div 26) \o <<UpperLetters[((n - 1) % 26) + 1]>>

suggest_response_location(question_location) ==
    IF column_part(question_location) = <<>> \/ row_part(question_location) = <<>>
    THEN <<>>
    ELSE column_letters(column_index(column_part(question_location)) + 1)
         \o row_part(question_location)

-----------------------------------------------------------------------------
(* Catalog records and the inputs of a session *)

\* CatalogRecord
CatalogRecord(tab, loc, text, isq, resp, resp_loc) ==
    [tab_name |-> tab, text_location |-> loc, text_value |-> text,
     is_question |-> isq, text_response |-> resp,
     text_response_location |-> resp_loc, is_default_answer |-> None,
     default_answer_question_location |-> None, is_instruction |-> None]

\* cell coordinates of the question records, in catalog order
QuestionLocations == << <<"B","7">>, <<"Z","3">>, <<"A","Z","1","2">> >>

SheetName == <<"S","1">>
QuestionText == <<"W","h","y","?">>
OldAnswer == <<"o","l","d">>
OldLocation == <<"E","9">>
DefaultText == <<"d","f","l","t">>

\* a record as the catalog hands it to the session: never answered, or
\* carrying the answer and location committed by an earlier session
InitialRecords(k) ==
    { CatalogRecord(SheetName, QuestionLocations[k], QuestionText, Some(TRUE),
                    st[1], st[2]) :
        st \in { <<None, None>>, <<Some(OldAnswer), Some(OldLocation)>> } }

\* the default-answer lookup: the first question has a catalog default, the
\* others have none
DefaultAnswers == [loc \in {QuestionLocations[1]} |-> DefaultText]

\* dict.get
get(d, k) == IF k \in DOMAIN d THEN Some(d[k]) ELSE None

\* lines typed at the answer prompt as the first line
AnswerFirstLines ==
    { <<>>, <<"q">>, <<" ","Q","u","i","t"," ">>, <<"B","a","c","k">>,
      <<"s">>, <<" ">>, <<"a">> }

\* lines typed at the answer prompt after the first collected line
AnswerMoreLines ==
    { <<>>, <<"q">>, <<"b","\\","n","c">> }

\* lines typed at the response-location prompt
LocationLines ==
    { <<>>, <<" ">>, <<"Q","U","I","T">>, <<" ","b">>, <<" ","D","5"," ">> }

QuitTokens == { <<"q">>, <<"q","u","i","t">> }
BackTokens == { <<"b">>, <<"b","a","c","k">> }
SkipTokens == { <<"s">>, <<"s","k","i","p">> }

AnswerPromptResult(command, answer) == [command |-> command, answer |-> answer]
LocationPromptResult(command, value) == [command |-> command, value |-> value]
SessionResult(current_index, aborted) ==
    [current_index |-> current_index, aborted |-> aborted]

-----------------------------------------------------------------------------
(* InteractiveSession.run *)

initial_index_unclamped(start) == start

\* index = max(0, start_index)
initial_index(start) == Max(0, start)

back_index_unclamped(i) == i - 1

\* index = max(0, index - 1)
back_index(i) == Max(0, i - 1)

next_index_stuck(i) == i

next_index_skips_two(i) == i + 2

\* index += 1
next_index(i) == i + 1

\* default_answer = record.text_response or default_answers.get(record.text_location)
proposed_default(record, defaults) ==
    PyOr(record.text_response, get(defaults, record.text_location))

\* the while test of run with the cursor at i and the default answers given to
\* run: either the next question is
\* rendered and its answer prompt opens, or run returns the completed result.
\* prompt_result and location are dead here (run assigns them again before it
\* reads them), so they are cleared.
\* n is the number of times the loop body was entered before.
loop_test_after(i, defaults, n) ==
    IF 0 <= i /\ i < Len(records')
    THEN /\ pc' = "answer"
         /\ cycles' = n + 1
         /\ index' = i
         /\ header' = i + 1
         /\ default_answer' = proposed_default(records'[i + 1], defaults)
         /\ lines' = <<>>
         /\ empty_streak' = 0
         /\ prompt_result' = None
         /\ location' = None
         /\ result' = None
    ELSE /\ pc' = "done"
         /\ index' = i
         /\ result' = Some(SessionResult(Len(records'), FALSE))
         /\ prompt_result' = None
         /\ location' = None
         /\ cycles' = n
         /\ UNCHANGED <<header, default_answer, lines, empty_streak>>

loop_test_from(i, defaults) == loop_test_after(i, defaults, cycles)

loop_test(i) == loop_test_from(i, default_answers)

\* return SessionResult(records, index, aborted=True)
return_aborted ==
    /\ pc' = "done"
    /\ result' = Some(SessionResult(index, TRUE))
    /\ UNCHANGED <<index, header, default_answer, lines, empty_streak, cycles>>

\* the program's variables while only a session is looked at
AppIdle ==
    /\ config = <<>>
    /\ base_records = <<>>
    /\ existing_records = <<>>
    /\ merged_records = <<>>
    /\ catalog_file = <<>>
    /\ files = <<>>
    /\ app_pc = "session"
    /\ exit_code = <<>>
    /\ stdout = <<>>
    /\ runs = 0

Init ==
    /\ AppIdle
    /\ question_records \in
         { rs \in [1..NumRecords -> UNION { InitialRecords(k) : k \in 1..NumRecords }] :
             \A k \in 1..NumRecords : rs[k] \in InitialRecords(k) }
    /\ records = question_records
    /\ default_answers = DefaultAnswers
    /\ start_index \in -1..(NumRecords + 1)
    /\ index = 0
    /\ pc = "start"
    /\ header = 0
    /\ default_answer = None
    /\ lines = <<>>
    /\ empty_streak = 0
    /\ raw_input = <<>>
    /\ reads = 0
    /\ prompt_result = None
    /\ suggestion = <<>>
    /\ location = None
    /\ result = None
    /\ cycles = 0

\* run, from its call to the first read (or to its return)
run_start ==
    /\ pc = "start"
    /\ records' = records
    /\ loop_test(initial_index(start_index))
    /\ UNCHANGED <<question_records, default_answers, start_index, raw_input,
                   reads, suggestion>>

-----------------------------------------------------------------------------
(* InteractiveSession._prompt_answer, one io.read per step *)

answer_command_raw(raw) == raw

\* command = raw_input.strip().lower()
answer_command(raw) == lower(strip(raw))

empty_first_line_skips(dflt) == Some(AnswerPromptResult("skip", None))

\* if not lines and raw_input == "": the default if there is one, else skip
empty_first_line(dflt) ==
    IF Truthy(dflt)
    THEN Some(AnswerPromptResult("answer", dflt))
    ELSE Some(AnswerPromptResult("skip", None))

assembled_answer_no_fallback(ls, dflt) ==
    Some(AnswerPromptResult("answer", Some(strip(join(ls)))))

\* answer = "\n".join(lines).strip()
\* return AnswerPromptResult("answer", answer if answer else default_answer)
assembled_answer(ls, dflt) ==
    LET answer == strip(join(ls)) IN
    Some(AnswerPromptResult("answer", IF answer # <<>> THEN Some(answer) ELSE dflt))

\* the control words taken on any line
answer_step_words_on_any_line(raw, ls, streak, dflt) ==
    LET command == answer_command(raw) IN
    IF command \in QuitTokens THEN Some(AnswerPromptResult("quit", None))
    ELSE IF command \in BackTokens THEN Some(AnswerPromptResult("back", None))
    ELSE IF command \in SkipTokens THEN Some(AnswerPromptResult("skip", None))
    ELSE IF ls = <<>> /\ raw = <<>> THEN empty_first_line(dflt)
    ELSE IF raw = <<>> /\ streak + 1 >= 3 THEN assembled_answer(ls, dflt)
    ELSE None

\* what one pass of the while body of _prompt_answer does with the line read:
\* the AnswerPromptResult it returns, or None when the loop goes on
answer_step(raw, ls, streak, dflt) ==
    LET command == answer_command(raw) IN
    IF ls = <<>> /\ command \in QuitTokens THEN Some(AnswerPromptResult("quit", None))
    ELSE IF ls = <<>> /\ command \in BackTokens THEN Some(AnswerPromptResult("back", None))
    ELSE IF ls = <<>> /\ command \in SkipTokens THEN Some(AnswerPromptResult("skip", None))
    ELSE IF ls = <<>> /\ raw = <<>> THEN empty_first_line(dflt)
    ELSE IF raw = <<>> /\ streak + 1 >= 3 THEN assembled_answer(ls, dflt)
    ELSE None

\* lines after the pass, when the loop goes on
answer_lines(raw, ls) ==
    IF raw = <<>> THEN Append(ls, <<>>) ELSE Append(ls, replace_escapes(raw))

answer_streak_no_reset(raw, streak) == IF raw = <<>> THEN streak + 1 ELSE streak

\* empty_streak after the pass, when the loop goes on
answer_streak(raw, streak) == IF raw = <<>> THEN streak + 1 ELSE 0

\* suggestion = existing or _suggest_response_location(question_location)
location_suggestion(existing, question_location) ==
    IF Truthy(existing) THEN Val(existing)
    ELSE suggest_response_location(question_location)

\* run, after _prompt_answer returned pr for the question at the cursor
after_answer(pr) ==
    IF pr.command = "quit"
    THEN /\ records' = records /\ return_aborted
         /\ prompt_result' = Some(pr) /\ UNCHANGED <<suggestion, location>>
    ELSE IF pr.command = "back"
    THEN /\ records' = records /\ loop_test(back_index(index)) /\ UNCHANGED <<suggestion>>
    ELSE IF pr.command = "skip"
    THEN /\ records' = records /\ loop_test(next_index(index)) /\ UNCHANGED <<suggestion>>
    ELSE /\ pc' = "location"
         /\ prompt_result' = Some(pr)
         /\ suggestion' = location_suggestion(records[index + 1].text_response_location,
                                              records[index + 1].text_location)
         /\ UNCHANGED <<records, index, header, default_answer, lines,
                        empty_streak, location, result, cycles>>

prompt_answer_read(raw) ==
    /\ pc = "answer"
    /\ reads < MaxReads
    /\ raw_input' = raw
    /\ reads' = reads + 1
    /\ LET pr == answer_step(raw, lines, empty_streak, default_answer) IN
       IF pr # None
       THEN after_answer(Val(pr))
       ELSE /\ lines' = answer_lines(raw, lines)
            /\ empty_streak' = answer_streak(raw, empty_streak)
            /\ UNCHANGED <<records, index, pc, header, default_answer,
                           prompt_result, suggestion, location, result, cycles>>
    /\ UNCHANGED <<question_records, default_answers, start_index>>

\* the first line of an answer
answer_first_line ==
    \E raw \in AnswerFirstLines : lines = <<>> /\ prompt_answer_read(raw)

\* a later line of a multi-line answer
answer_more_line ==
    \E raw \in AnswerMoreLines : lines # <<>> /\ prompt_answer_read(raw)

-----------------------------------------------------------------------------
(* InteractiveSession._prompt_location, one io.read per step *)

\* what one pass of the while body of _prompt_location returns, None when it
\* asks again
location_step(raw, sugg) ==
    LET stripped == strip(raw)
        lowered == lower(stripped) IN
    IF lowered \in QuitTokens THEN Some(LocationPromptResult("quit", None))
    ELSE IF lowered \in BackTokens THEN Some(LocationPromptResult("back", None))
    ELSE IF stripped = <<>> /\ sugg # <<>> THEN Some(LocationPromptResult("accept", Some(sugg)))
    ELSE IF stripped # <<>> THEN Some(LocationPromptResult("accept", Some(stripped)))
    ELSE None

\* the answer written to the first record, whatever the cursor
commit_to_first_record(recs, i, answer, value) ==
    [recs EXCEPT ![1].text_response = answer,
                 ![1].text_response_location = value]

\* record.text_response = answer; record.text_response_location = location.value
commit(recs, i, answer, value) ==
    [recs EXCEPT ![i + 1].text_response = answer,
                 ![i + 1].text_response_location = value]

after_location_commits_first(loc) ==
    IF loc.command = "quit"
    THEN /\ records' = commit(records, index, Val(prompt_result).answer, Some(suggestion))
         /\ return_aborted
         /\ location' = Some(loc) /\ UNCHANGED <<prompt_result>>
    ELSE IF loc.command = "back"
    THEN /\ records' = commit(records, index, Val(prompt_result).answer, Some(suggestion))
         /\ loop_test(back_index(index))
    ELSE /\ records' = commit(records, index, Val(prompt_result).answer, loc.value)
         /\ loop_test(index + 1)

\* run, after _prompt_location returned loc for the question at the cursor
after_location(loc) ==
    IF loc.command = "quit"
    THEN /\ records' = records /\ return_aborted
         /\ location' = Some(loc) /\ UNCHANGED <<prompt_result>>
    ELSE IF loc.command = "back"
    THEN /\ records' = records /\ loop_test(back_index(index))
    ELSE /\ records' = commit(records, index, Val(prompt_result).answer, loc.value)
         /\ loop_test(index + 1)

location_read(raw) ==
    /\ pc = "location"
    /\ reads < MaxReads
    /\ raw_input' = raw
    /\ reads' = reads + 1
    /\ LET loc == location_step(raw, suggestion) IN
       IF loc # None
       THEN after_location(Val(loc))
       ELSE UNCHANGED <<records, index, pc, header, default_answer, lines,
                        empty_streak, prompt_result, location, result, cycles>>
    /\ UNCHANGED <<question_records, default_answers, start_index, suggestion>>

prompt_location_read ==
    \E raw \in LocationLines : location_read(raw)

-----------------------------------------------------------------------------

Next ==
    \/ run_start /\ UNCHANGED app_vars
    \/ answer_first_line /\ UNCHANGED app_vars
    \/ answer_more_line /\ UNCHANGED app_vars
    \/ prompt_location_read /\ UNCHANGED app_vars

Spec == Init /\ [][Next]_vars

-----------------------------------------------------------------------------
(* Properties of the session.  The console lines below are written out
   character by character, so that what the code makes of a line is decided
   by the model of the code and not by the statement of the property. *)

LineQuitUpper == <<" ","Q","u","i","t"," ">>
LineBack == <<"B","a","c","k">>
LineLocQuit == <<"Q","U","I","T">>
LineLocBack == <<" ","b">>
LineLocOverride == <<" ","D","5"," ">>

\* C1: when the first line at the answer prompt of question i is q or quit
\* (any case, surrounded by whitespace or not), run returns aborted with
\* current_index = i and that step changes no record.
C1_QuitAtAnswerPrompt ==
    [][ (pc = "answer" /\ lines = <<>> /\ raw_input' \in { <<"q">>, LineQuitUpper })
        => /\ pc' = "done"
           /\ result' = Some(SessionResult(index, TRUE))
           /\ records' = records ]_vars

\* quit typed as " Quit " on the second question, after "a" was committed to
\* the first
C1_Witness ==
    /\ pc = "done"
    /\ raw_input = LineQuitUpper
    /\ result = Some(SessionResult(1, TRUE))
    /\ question_records[1].text_response = None
    /\ records[1].text_response = Some(<<"a">>)

\* C2: a record changes only in the step that confirms the response location
\* (empty input takes the suggestion, other input overrides it), and it then
\* receives the pending answer and that location; quit at the location prompt
\* leaves the records alone and aborts at i, back leaves them alone and moves
\* the cursor to max(0, i-1).
C2_CommitOnlyAfterLocation ==
    [][ /\ records' # records
           => pc = "location" /\ raw_input' \in { <<>>, <<" ">>, LineLocOverride }
        /\ (pc = "location" /\ raw_input' \in { <<>>, <<" ">> })
           => /\ records' = [records EXCEPT
                   ![index + 1].text_response = Val(prompt_result).answer,
                   ![index + 1].text_response_location = Some(suggestion)]
              /\ index' = index + 1
        /\ (pc = "location" /\ raw_input' = LineLocOverride)
           => /\ records' = [records EXCEPT
                   ![index + 1].text_response = Val(prompt_result).answer,
                   ![index + 1].text_response_location = Some(<<"D","5">>)]
              /\ index' = index + 1
        /\ (pc = "location" /\ raw_input' = LineLocQuit)
           => /\ records' = records
              /\ pc' = "done"
              /\ result' = Some(SessionResult(index, TRUE))
        /\ (pc = "location" /\ raw_input' = LineLocBack)
           => /\ records' = records
              /\ pc' = "answer"
              /\ index' = IF index = 0 THEN 0 ELSE index - 1 ]_vars

\* back at the location prompt of the second question, with a collected
\* answer pending: the cursor is on the first question and no record changed
C2_Witness ==
    /\ start_index = 1
    /\ reads = 5
    /\ raw_input = LineLocBack
    /\ pc = "answer"
    /\ index = 0
    /\ records = question_records

\* C3: every record that entered the session with neither an answer nor a
\* response location has a response location exactly when it has an answer.
C3_LocationIffAnswer ==
    \A k \in 1..Len(records) :
        (/\ question_records[k].text_response = None
         /\ question_records[k].text_response_location = None)
        => (records[k].text_response_location # None
            <=> records[k].text_response # None)

\* C4: back as the first line at the answer prompt of question i moves the
\* cursor to max(0, i-1), changes no record, and the question rendered next
\* is the one at the new cursor.
C4_BackAtAnswerPrompt ==
    [][ (pc = "answer" /\ lines = <<>> /\ raw_input' = LineBack)
        => /\ index' = IF index = 0 THEN 0 ELSE index - 1
           /\ records' = records
           /\ pc' = "answer"
           /\ header' = index' + 1 ]_vars

\* back typed on the second question: the first question is rendered again
C4_Witness ==
    /\ start_index = 1
    /\ reads = 1
    /\ raw_input = LineBack
    /\ pc = "answer"
    /\ index = 0
    /\ header = 1

\* C5: skip as the first line at the answer prompt of question i moves the
\* cursor to i+1 and changes no record.
C5_SkipAtAnswerPrompt ==
    [][ (pc = "answer" /\ lines = <<>> /\ raw_input' = <<"s">>)
        => /\ index' = index + 1
           /\ records' = records ]_vars

\* an answered first question was skipped and kept its answer and location
C5_Witness ==
    /\ start_index = 0
    /\ reads = 1
    /\ raw_input = <<"s">>
    /\ index = 1
    /\ records[1].text_response = Some(OldAnswer)
    /\ records[1].text_response_location = Some(OldLocation)

\* C6 as stated: an empty first line without a default is a skip; with a
\* default, the prompt cycle it opens ends with the default committed as the
\* record's answer and the cursor advanced by one.
C6_EmptyFirstLineAsStated ==
    [][ /\ (pc = "answer" /\ lines = <<>> /\ raw_input' = <<>> /\ ~Truthy(default_answer))
           => index' = index + 1 /\ records' = records /\ pc' # "location"
        /\ (pc = "location" /\ lines = <<>>)
           => /\ records'[index + 1].text_response = default_answer
              /\ index' = index + 1 ]_vars

\* C6, amended: an empty first line without a default is a skip; with a
\* default, the prompt returns that default verbatim as the answer and the
\* response-location prompt follows: confirming the location commits the
\* default and advances the cursor by one, quit or back there leaves the
\* record unchanged.
C6_EmptyFirstLine ==
    [][ /\ (pc = "answer" /\ lines = <<>> /\ raw_input' = <<>> /\ ~Truthy(default_answer))
           => index' = index + 1 /\ records' = records /\ pc' # "location"
        /\ (pc = "answer" /\ lines = <<>> /\ raw_input' = <<>> /\ Truthy(default_answer))
           => /\ pc' = "location"
              /\ prompt_result' = Some(AnswerPromptResult("answer", default_answer))
              /\ records' = records
              /\ index' = index
        /\ (pc = "location" /\ lines = <<>> /\ raw_input' \notin { LineLocQuit, LineLocBack })
           => /\ records'[index + 1].text_response = default_answer
              /\ index' = index + 1
        /\ (pc = "location" /\ lines = <<>> /\ raw_input' \in { LineLocQuit, LineLocBack })
           => /\ records' = records
              /\ index' # index + 1 ]_vars

\* the catalog default of the first question was accepted with an empty line
\* and committed once the location was confirmed
C6_Witness ==
    /\ start_index = 0
    /\ reads = 2
    /\ index = 1
    /\ question_records[1].text_response = None
    /\ records[1].text_response = Some(DefaultText)
    /\ records[1].text_response_location = Some(<<"C","7">>)

RECURSIVE TrailingBlanks(_)
\* how many empty lines end the collected lines
TrailingBlanks(ls) ==
    IF ls = <<>> \/ ls[Len(ls)] # <<>> THEN 0
    ELSE 1 + TrailingBlanks(SubSeq(ls, 1, Len(ls) - 1))

C8_EmptyAnswerFallsBack ==
    [][ /\ (pc = "answer" /\ lines = << <<" ">>, <<>>, <<>> >> /\ raw_input' = <<>>)
           => /\ pc' = "location"
              /\ Truthy(default_answer)
                 => prompt_result' = Some(AnswerPromptResult("answer", default_answer))
              /\ ~Truthy(default_answer)
                 => prompt_result' = Some(AnswerPromptResult("answer", None))
        /\ (pc = "location" /\ Val(prompt_result).answer = None)
           => ~Truthy(records'[index + 1].text_response) ]_vars

\* the second question, which has no default, was answered with spaces only
\* and its prompt cycle is over: it has no answer
C8_Witness ==
    /\ start_index = 1
    /\ reads = 5
    /\ index = 2
    /\ question_records[2].text_response = None
    /\ records[2].text_response = None
    /\ records[2].text_response_location # None

\* C9: for a record that carries a response and has no default-answer entry,
\* the first line read is an overwrite confirmation, and an empty line
\* declines: the cursor advances by one and no record changes.
C9_DeclineOverwrite ==
    [][ (/\ pc = "answer" /\ lines = <<>>
         /\ Truthy(records[index + 1].text_response)
         /\ records[index + 1].text_location \notin DOMAIN default_answers
         /\ raw_input' = <<>>)
        => /\ index' = index + 1
           /\ records' = records
           /\ pc' # "location" ]_vars

\* C10: the cursor stays within [0, N]: a start_index >= N returns at once,
\* completed, with current_index = N, no line read and no record changed; a
\* negative start_index starts at the first question; a result that is not
\* aborted has current_index = N.
C10_CursorClamp ==
    /\ pc \in {"answer", "location"} => index \in 0..(Len(records) - 1)
    /\ result # None => Val(result).current_index \in 0..Len(records)
    /\ (result # None /\ ~Val(result).aborted)
       => Val(result).current_index = Len(records)
    /\ (pc # "start" /\ start_index >= Len(records))
       => /\ pc = "done"
          /\ reads = 0
          /\ records = question_records
          /\ result = Some(SessionResult(Len(records), FALSE))
    /\ (pc # "start" /\ start_index < 0 /\ reads = 0)
       => pc = "answer" /\ index = 0 /\ header = 1

\* run was started beyond the last question and returned completed
C10_Witness ==
    /\ start_index = NumRecords + 1
    /\ pc = "done"
    /\ reads = 0
    /\ result = Some(SessionResult(NumRecords, FALSE))

\* the fields of a record the session never writes
SameQuestion(a, b) ==
    /\ a.tab_name = b.tab_name
    /\ a.text_location = b.text_location
    /\ a.text_value = b.text_value
    /\ a.is_question = b.is_question
    /\ a.is_default_answer = b.is_default_answer
    /\ a.default_answer_question_location = b.default_answer_question_location
    /\ a.is_instruction = b.is_instruction

\* C25: no step of a session changes the number or the order of the records;
\* a step changes at most the text_response and text_response_location of the
\* record at the cursor, every other field and every other record staying as
\* it was, and it changes them only when a line read at the response-location
\* prompt is accepted as the location (it is neither quit nor back), the
\* cursor then moving on by one.
C25_SessionFrame ==
    [][ /\ Len(records') = Len(records)
        /\ \A k \in 1..Len(records) :
             /\ SameQuestion(records'[k], records[k])
             /\ k # index + 1 => records'[k] = records[k]
        /\ records' # records
           => /\ pc = "location"
              /\ reads' = reads + 1
              /\ raw_input' # LineLocQuit
              /\ raw_input' # LineLocBack
              /\ index' = index + 1
              /\ records'[index + 1].text_response = Val(prompt_result).answer
              /\ Truthy(records'[index + 1].text_response_location) ]_vars

\* the second question was answered at a location typed by the user, the
\* first one is as it was handed in, and the session is over
C25_Witness ==
    /\ pc = "done"
    /\ Len(records) = NumRecords
    /\ records[1] = question_records[1]
    /\ records[2].text_response # question_records[2].text_response
    /\ records[2].text_response_location = Some(<<"D","5">>)
    /\ SameQuestion(records[2], question_records[2])

-----------------------------------------------------------------------------
(* XLSXQuestionnaireApp._merge_records *)

\* records in one catalog, fresh or persisted
MaxCatalogRecords == 2

\* the session's variables while no session is running
SessionIdle ==
    /\ question_records = <<>>
    /\ records = <<>>
    /\ default_answers = <<>>
    /\ start_index = 0
    /\ index = 0
    /\ pc = "idle"
    /\ header = 0
    /\ default_answer = None
    /\ lines = <<>>
    /\ empty_streak = 0
    /\ raw_input = <<>>
    /\ reads = 0
    /\ prompt_result = None
    /\ suggestion = <<>>
    /\ location = None
    /\ result = None
    /\ cycles = 0

\* catalog_key
catalog_key(record) == <<record.tab_name, record.text_location>>

update_from_existing_keeps_location(self, other) ==
    [self EXCEPT !.is_question = other.is_question,
                 !.text_response = other.text_response,
                 !.is_default_answer = other.is_default_answer,
                 !.default_answer_question_location = other.default_answer_question_location,
                 !.is_instruction = other.is_instruction]

\* CatalogRecord.update_from_existing
update_from_existing(self, other) ==
    [self EXCEPT !.is_question = other.is_question,
                 !.text_response = other.text_response,
                 !.text_response_location = other.text_response_location,
                 !.is_default_answer = other.is_default_answer,
                 !.default_answer_question_location = other.default_answer_question_location,
                 !.is_instruction = other.is_instruction]

\* a dict keyed by catalog_key is the sequence of its values in insertion order
dict_keys(d) == { catalog_key(d[i]) : i \in 1..Len(d) }
dict_get(d, key) == d[CHOOSE i \in 1..Len(d) : catalog_key(d[i]) = key]

\* d[catalog_key(record)] = record: a new key goes last, a known key keeps its
\* place and takes the new value
dict_put(d, record) ==
    IF catalog_key(record) \in dict_keys(d)
    THEN [i \in 1..Len(d) |->
            IF catalog_key(d[i]) = catalog_key(record) THEN record ELSE d[i]]
    ELSE Append(d, record)

\* {catalog_key(record): record for record in rs}
RECURSIVE keyed_records(_)
keyed_records(rs) ==
    IF rs = <<>> THEN <<>>
    ELSE dict_put(keyed_records(SubSeq(rs, 1, Len(rs) - 1)), rs[Len(rs)])

\* the first loop of _merge_records: the fresh records in their order, each
\* taking the persisted fields of its key when the key is persisted
merge_base_records(base, existing) ==
    [i \in 1..Len(base) |->
        IF catalog_key(base[i]) \in dict_keys(existing)
        THEN update_from_existing(base[i], dict_get(existing, catalog_key(base[i])))
        ELSE base[i]]

merged_keys_untracked(base) == {}

\* the keys of `merged` after the first loop
merged_keys(base) == { catalog_key(base[i]) : i \in 1..Len(base) }

unmatched_records_dropped(existing, consumed) == <<>>

\* the second loop of _merge_records: the persisted records whose key is not
\* in `merged`, in the dict's order
unmatched_records(existing, consumed) ==
    SelectSeq(existing, LAMBDA e : catalog_key(e) \notin consumed)

\* the persisted-only records put first
merge_records_persisted_first(base, existing) ==
    unmatched_records(existing, merged_keys(base))
    \o merge_base_records(base, existing)

\* _merge_records
merge_records(base, existing) ==
    merge_base_records(base, existing)
    \o unmatched_records(existing, merged_keys(base))

OtherSheet == <<"S","2">>
FreshText == <<"n","e","w","?">>

\* (tab_name, text_location) of the cells of the workbook and the catalog
MergeKeys ==
    { <<SheetName, QuestionLocations[1]>>, <<SheetName, QuestionLocations[2]>>,
      <<OtherSheet, QuestionLocations[1]>> }

\* a freshly extracted record: its optional fields unset, or already classified
FreshRecords(key) ==
    { CatalogRecord(key[1], key[2], FreshText, None, None, None),
      [CatalogRecord(key[1], key[2], FreshText, Some(TRUE), None, None)
         EXCEPT !.is_instruction = Some(FALSE)] }

\* a record of a loaded catalog: untouched, an answered question, or a text
\* flagged as the default answer of B7
PersistedRecords(key) ==
    { CatalogRecord(key[1], key[2], QuestionText, None, None, None),
      [CatalogRecord(key[1], key[2], QuestionText, Some(TRUE),
                     Some(OldAnswer), Some(OldLocation))
         EXCEPT !.is_default_answer = Some(FALSE), !.is_instruction = Some(FALSE)],
      [CatalogRecord(key[1], key[2], QuestionText, Some(FALSE), None, None)
         EXCEPT !.is_default_answer = Some(TRUE),
                !.default_answer_question_location = Some(QuestionLocations[1]),
                !.is_instruction = Some(TRUE)] }

\* sequences of at most n of the given records, with distinct keys
CatalogsOf(shapes, n) ==
    UNION { { rs \in [1..m -> shapes] :
                \A i, j \in 1..m : i # j => catalog_key(rs[i]) # catalog_key(rs[j]) } :
            m \in 0..n }

MergeInit ==
    /\ SessionIdle
    /\ config = <<>>
    /\ base_records \in CatalogsOf(UNION { FreshRecords(k) : k \in MergeKeys },
                                     MaxCatalogRecords)
    /\ existing_records \in CatalogsOf(UNION { PersistedRecords(k) : k \in MergeKeys },
                                     MaxCatalogRecords)
    /\ merged_records = <<>>
    /\ catalog_file = <<>>
    /\ files = <<>>
    /\ app_pc = "merge"
    /\ exit_code = <<>>
    /\ stdout = <<>>
    /\ runs = 0

\* merged_records = self._merge_records(base_records, existing_records)
merge_call ==
    /\ app_pc = "merge"
    /\ merged_records' = merge_records(base_records, existing_records)
    /\ app_pc' = "merged"
    /\ UNCHANGED <<config, base_records, existing_records, catalog_file,
                   files, exit_code, stdout, runs>>
    /\ UNCHANGED session_vars

\* the merged sequence merged again, as the fresh records, with the catalog
\* built from that same sequence
merge_again ==
    /\ app_pc = "merged"
    /\ base_records' = merged_records
    /\ existing_records' = keyed_records(merged_records)
    /\ merged_records' = merge_records(merged_records, keyed_records(merged_records))
    /\ app_pc' = "remerged"
    /\ UNCHANGED <<config, catalog_file, files, exit_code, stdout, runs>>
    /\ UNCHANGED session_vars

MergeNext ==
    \/ merge_call
    \/ merge_again

MergeSpec == MergeInit /\ [][MergeNext]_vars

\* C11: the merged sequence holds exactly the keys of the fresh records and of
\* the persisted records, each key once.
C11_MergeKeyStable ==
    app_pc = "merged"
    => /\ { catalog_key(merged_records[i]) : i \in 1..Len(merged_records) }
          = { catalog_key(base_records[i]) : i \in 1..Len(base_records) }
            \cup { catalog_key(existing_records[i]) : i \in 1..Len(existing_records) }
       /\ \A i, j \in 1..Len(merged_records) :
            i # j => catalog_key(merged_records[i]) # catalog_key(merged_records[j])

\* two fresh and two persisted records sharing one key were merged into three
C11_Witness ==
    /\ app_pc = "merged"
    /\ Len(base_records) = 2
    /\ Len(existing_records) = 2
    /\ Len(merged_records) = 3

\* C12: for a key that is both fresh and persisted, the merged record has the
\* fresh record's tab_name, text_location and text_value and the persisted
\* record's six other fields, unset ones included.
C12_MergeFieldPrecedence ==
    app_pc = "merged"
    => \A f \in 1..Len(base_records), p \in 1..Len(existing_records),
          m \in 1..Len(merged_records) :
          (/\ catalog_key(base_records[f]) = catalog_key(existing_records[p])
           /\ catalog_key(merged_records[m]) = catalog_key(base_records[f]))
          => /\ merged_records[m].tab_name = base_records[f].tab_name
             /\ merged_records[m].text_location = base_records[f].text_location
             /\ merged_records[m].text_value = base_records[f].text_value
             /\ merged_records[m].is_question = existing_records[p].is_question
             /\ merged_records[m].text_response = existing_records[p].text_response
             /\ merged_records[m].text_response_location
                = existing_records[p].text_response_location
             /\ merged_records[m].is_default_answer = existing_records[p].is_default_answer
             /\ merged_records[m].default_answer_question_location
                = existing_records[p].default_answer_question_location
             /\ merged_records[m].is_instruction = existing_records[p].is_instruction

\* a classified fresh record met an untouched persisted one, and another
\* fresh record met an answered one
C12_Witness ==
    /\ app_pc = "merged"
    /\ Len(base_records) = 2
    /\ Len(existing_records) = 2
    /\ catalog_key(base_records[1]) = catalog_key(existing_records[2])
    /\ catalog_key(base_records[2]) = catalog_key(existing_records[1])
    /\ base_records[1].is_question = Some(TRUE)
    /\ existing_records[2].is_question = None
    /\ merged_records[1].is_question = None
    /\ merged_records[1].text_value = FreshText
    /\ merged_records[2].text_response = Some(OldAnswer)

\* C13: merging the merged sequence again, as the fresh records, with the
\* catalog built from that same sequence gives the same sequence: same keys,
\* same order, same fields.
C13_MergeIdempotent ==
    app_pc = "remerged" => merged_records = base_records

\* a merge result of three records, one of them persisted only, was merged
\* again
C13_Witness ==
    /\ app_pc = "remerged"
    /\ Len(merged_records) = 3
    /\ merged_records[3].text_value = QuestionText
    /\ \E i \in 1..2 : merged_records[i].text_response = Some(OldAnswer)

\* C23: the merged sequence starts with one record per fresh record, in
\* extraction order (same key, same text), and goes on with exactly the
\* persisted records whose key no fresh record has, each with all its fields
\* as persisted and in the order of the persisted mapping; so no
\* persisted-only record comes before a fresh one.
C23_MergeOrdering ==
    app_pc = "merged"
    => LET n == Len(base_records)
           fresh_keys == { catalog_key(base_records[i]) : i \in 1..n }
           only_persisted == { p \in 1..Len(existing_records) :
                                 catalog_key(existing_records[p]) \notin fresh_keys }
       IN /\ Len(merged_records) = n + Cardinality(only_persisted)
          /\ \A i \in 1..n :
               /\ catalog_key(merged_records[i]) = catalog_key(base_records[i])
               /\ merged_records[i].text_value = base_records[i].text_value
          /\ \A t \in 1..Cardinality(only_persisted) :
               \E p \in only_persisted :
                  /\ Cardinality({ q \in only_persisted : q < p }) = t - 1
                  /\ merged_records[n + t] = existing_records[p]

\* one fresh record was merged with two persisted records of other keys, which
\* differ from each other
C23_Witness ==
    /\ app_pc = "merged"
    /\ Len(base_records) = 1
    /\ Len(existing_records) = 2
    /\ Len(merged_records) = 3
    /\ merged_records[2] = existing_records[1]
    /\ merged_records[3] = existing_records[2]
    /\ existing_records[1].text_response # existing_records[2].text_response

-----------------------------------------------------------------------------
(* The answer prompt over lines made of backslashes, n's and another letter *)

\* characters in one typed line
MaxLineLen == 4

EscapeChars == {"\\", "n", "a"}

\* the lines of at most MaxLineLen characters over EscapeChars
EscapeLines == UNION { [1..n -> EscapeChars] : n \in 0..MaxLineLen }

\* a blank line, a line ending in an escape
EscapeMoreLines == { <<>>, <<"a","\\","n">> }

EscapeInit ==
    /\ AppIdle
    /\ question_records
         = << CatalogRecord(SheetName, QuestionLocations[1], QuestionText,
                            Some(TRUE), None, None) >>
    /\ records = question_records
    /\ default_answers \in { DefaultAnswers, <<>> }
    /\ start_index = 0
    /\ index = 0
    /\ pc = "start"
    /\ header = 0
    /\ default_answer = None
    /\ lines = <<>>
    /\ empty_streak = 0
    /\ raw_input = <<>>
    /\ reads = 0
    /\ prompt_result = None
    /\ suggestion = <<>>
    /\ location = None
    /\ result = None
    /\ cycles = 0

escape_first_line ==
    \E raw \in EscapeLines : lines = <<>> /\ prompt_answer_read(raw)

escape_more_line ==
    \E raw \in EscapeMoreLines : lines # <<>> /\ prompt_answer_read(raw)

\* the suggested response location is accepted with an empty line
escape_location_line == location_read(<<>>)

EscapeNext ==
    \/ run_start /\ UNCHANGED app_vars
    \/ escape_first_line /\ UNCHANGED app_vars
    \/ escape_more_line /\ UNCHANGED app_vars
    \/ escape_location_line /\ UNCHANGED app_vars

EscapeSpec == EscapeInit /\ [][EscapeNext]_vars

\* every line break of s written back as backslash, n
RECURSIVE escaped(_)
escaped(s) ==
    IF s = <<>> THEN <<>>
    ELSE IF s[1] = "\n" THEN <<"\\", "n">> \o escaped(Tail(s))
         ELSE <<s[1]>> \o escaped(Tail(s))

HasEscape(s) == \E i \in 1..(Len(s) - 1) : s[i] = "\\" /\ s[i + 1] = "n"

\* C20: a non-empty line collected by the answer prompt is stored with every
\* backslash-n pair turned into a line break and nothing else changed (no pair
\* is left, and writing the line breaks back as pairs gives the typed line);
\* the committed answer is the collected lines joined by line breaks and
\* trimmed as a whole.
C20_EscapeExpansion ==
    [][ /\ (pc = "answer" /\ lines' # lines /\ raw_input' # <<>>)
           => /\ Len(lines') = Len(lines) + 1
              /\ SubSeq(lines', 1, Len(lines)) = lines
              /\ ~HasEscape(lines'[Len(lines')])
              /\ escaped(lines'[Len(lines')]) = raw_input'
        /\ (pc = "location" /\ records' # records /\ strip(join(lines)) # <<>>)
           => records'[index + 1].text_response = Some(strip(join(lines))) ]_vars

\* the typed line a\na was committed as a, line break, a
C20_Witness ==
    /\ pc = "done"
    /\ lines = << <<"a","\n","a">>, <<>>, <<>> >>
    /\ records[1].text_response = Some(<<"a","\n","a">>)

-----------------------------------------------------------------------------
(* CatalogRepository: the catalog as the text of a CSV file *)

CATALOG_HEADERS ==
    << <<"t","a","b","N","a","m","e">>,
      <<"t","e","x","t","L","o","c","a","t","i","o","n">>,
      <<"t","e","x","t","V","a","l","u","e">>,
      <<"i","s","Q","u","e","s","t","i","o","n">>,
      <<"t","e","x","t","R","e","s","p","o","n","s","e">>,
      <<"t","e","x","t","R","e","s","p","o","n","s","e","L","o","c","a","t","i","o","n">>,
      <<"i","s","D","e","f","a","u","l","t","A","n","s","w","e","r">>,
      <<"d","e","f","a","u","l","t","A","n","s","w","e","r","Q","u","e","s","t","i","o","n","L","o","c","a","t","i","o","n">>,
      <<"i","s","I","n","s","t","r","u","c","t","i","o","n">> >>

BOOLEAN_TRUE == { <<"t","r","u","e">>, <<"y","e","s">>, <<"y">>, <<"1">> }
BOOLEAN_FALSE == { <<"f","a","l","s","e">>, <<"n","o">>, <<"n">>, <<"0">> }

bool_to_field_false_blank(value) ==
    IF value = None THEN <<>>
    ELSE IF Val(value) THEN <<"t","r","u","e">> ELSE <<>>

\* _bool_to_field
bool_to_field(value) ==
    IF value = None THEN <<>>
    ELSE IF Val(value) THEN <<"t","r","u","e">> ELSE <<"f","a","l","s","e">>

\* value or "" for an Optional[str]
or_empty(value) == IF Truthy(value) THEN Val(value) ELSE <<>>

\* CatalogRecord.as_csv_row
as_csv_row(self) ==
    << self.tab_name,
       self.text_location,
       self.text_value,
       bool_to_field(self.is_question),
       or_empty(self.text_response),
       or_empty(self.text_response_location),
       bool_to_field(self.is_default_answer),
       or_empty(self.default_answer_question_location),
       bool_to_field(self.is_instruction) >>

\* parse_bool
parse_bool(value) ==
    IF value = None THEN None
    ELSE LET lowered == lower(strip(Val(value))) IN
         IF lowered \in BOOLEAN_TRUE THEN Some(TRUE)
         ELSE IF lowered \in BOOLEAN_FALSE THEN Some(FALSE)
         ELSE None

\* the first position from p on whose character is in chars, Len(s) + 1
\* when there is none
find(s, p, chars) ==
    LET at == { k \in p..Len(s) : s[k] \in chars } IN
    IF at = {} THEN Len(s) + 1 ELSE CHOOSE k \in at : \A j \in at : k <= j

\* csv.writer with QUOTE_ALL: a field between quotes, its quotes doubled
RECURSIVE double_quotes(_)
double_quotes(f) ==
    LET q == find(f, 1, {"\""}) IN
    IF q > Len(f) THEN f
    ELSE SubSeq(f, 1, q) \o <<"\"">> \o double_quotes(SubSeq(f, q + 1, Len(f)))

quote_field(f) == <<"\"">> \o double_quotes(f) \o <<"\"">>

\* writer.writerow: the quoted fields separated by commas, lineterminator "\n"
RECURSIVE writerow(_)
writerow(fields) ==
    IF Len(fields) = 1 THEN quote_field(fields[1]) \o <<"\n">>
    ELSE quote_field(fields[1]) \o <<",">> \o writerow(Tail(fields))

RECURSIVE write_records(_)
write_records(rs) ==
    IF rs = <<>> THEN <<>>
    ELSE writerow(as_csv_row(rs[1])) \o write_records(Tail(rs))

\* order_catalog
order_catalog(rs) == rs

\* the text CatalogRepository.save writes
save_text(rs) == writerow(CATALOG_HEADERS) \o write_records(order_catalog(rs))

\* the characters from i up to stop, where the field ends
plain_field(text, i, stop) == [stop |-> stop, value |-> SubSeq(text, i, stop - 1)]

\* a scan result with prefix put before its value
prepend(prefix, scanned) == [stop |-> scanned.stop, value |-> prefix \o scanned.value]

\* csv.reader with the default dialect, inside a quoted field from p on
\* (IN_QUOTED_FIELD), q being the next quote: up to q the characters are the
\* field's; two quotes in a row are one quote of the field; a single quote
\* closes the quoting, and what follows up to the comma or line end is added
\* as it is.  The scan stops at the comma or line end that ends the field, or
\* past the text; value is the field collected.
RECURSIVE scan_quoted(_, _, _)
scan_quoted(text, p, q) ==
    IF q > Len(text) THEN [stop |-> q, value |-> SubSeq(text, p, Len(text))]
    ELSE IF q < Len(text) /\ text[q + 1] = "\""
    THEN prepend(SubSeq(text, p, q),
                 scan_quoted(text, q + 2, find(text, q + 2, {"\""})))
    ELSE prepend(SubSeq(text, p, q - 1),
                 plain_field(text, q + 1, find(text, q + 1, {",", "\n"})))

\* csv.reader at the start of a field (START_FIELD)
scan_field(text, i) ==
    IF i > Len(text) THEN [stop |-> i, value |-> <<>>]
    ELSE IF text[i] = "\"" THEN scan_quoted(text, i + 1, find(text, i + 1, {"\""}))
    ELSE plain_field(text, i, find(text, i, {",", "\n"}))

\* a record with the field v put before its fields
prepend_field(v, scanned) == [stop |-> scanned.stop, row |-> <<v>> \o scanned.row]

\* the fields of the record whose next field, f, starts at i, and where the
\* record stops: at its line end, or past the text
RECURSIVE scan_record(_, _, _)
scan_record(text, i, f) ==
    IF f.stop > Len(text) \/ text[f.stop] = "\n"
    THEN [stop |-> f.stop, row |-> <<f.value>>]
    ELSE prepend_field(f.value,
                       scan_record(text, f.stop + 1, scan_field(text, f.stop + 1)))

\* the records from i on, r being the record that starts at i; a line end at
\* START_RECORD is an empty record
RECURSIVE csv_parse(_, _, _)
csv_parse(text, i, r) ==
    IF i > Len(text) THEN <<>>
    ELSE IF text[i] = "\n"
    THEN << <<>> >> \o csv_parse(text, i + 1, scan_record(text, i + 1, scan_field(text, i + 1)))
    ELSE <<r.row>>
         \o csv_parse(text, r.stop + 1,
                      scan_record(text, r.stop + 1, scan_field(text, r.stop + 1)))

csv_reader(text) == csv_parse(text, 1, scan_record(text, 1, scan_field(text, 1)))

\* csv.DictReader: the first record names the fields, empty records are skipped
fieldnames(text) ==
    LET rows == SelectSeq(csv_reader(text), LAMBDA r : r # <<>>) IN
    IF rows = <<>> THEN <<>> ELSE rows[1]

dict_rows(text) ==
    LET rows == SelectSeq(csv_reader(text), LAMBDA r : r # <<>>) IN
    IF rows = <<>> THEN <<>> ELSE Tail(rows)

\* row.get(name) of a DictReader row: None where the record is too short
row_get(names, row, name) ==
    LET at == { i \in 1..Len(names) : names[i] = name /\ i <= Len(row) } IN
    IF at = {} THEN None
    ELSE Some(row[CHOOSE i \in at : \A j \in at : j <= i])

\* value or None
or_none(value) == IF Truthy(value) THEN value ELSE None

\* build_catalog_record
build_catalog_record(names, row) ==
    [tab_name |-> Val(row_get(names, row, <<"t","a","b","N","a","m","e">>)),
     text_location |-> Val(row_get(names, row, <<"t","e","x","t","L","o","c","a","t","i","o","n">>)),
     text_value |-> Val(row_get(names, row, <<"t","e","x","t","V","a","l","u","e">>)),
     is_question |-> parse_bool(row_get(names, row, <<"i","s","Q","u","e","s","t","i","o","n">>)),
     text_response |-> or_none(row_get(names, row, <<"t","e","x","t","R","e","s","p","o","n","s","e">>)),
     text_response_location |->
         or_none(row_get(names, row, <<"t","e","x","t","R","e","s","p","o","n","s","e","L","o","c","a","t","i","o","n">>)),
     is_default_answer |-> parse_bool(row_get(names, row, <<"i","s","D","e","f","a","u","l","t","A","n","s","w","e","r">>)),
     default_answer_question_location |->
         or_none(row_get(names, row, <<"d","e","f","a","u","l","t","A","n","s","w","e","r","Q","u","e","s","t","i","o","n","L","o","c","a","t","i","o","n">>)),
     is_instruction |-> parse_bool(row_get(names, row, <<"i","s","I","n","s","t","r","u","c","t","i","o","n">>))]

\* missing_headers of CatalogRepository.load
missing_headers(text) ==
    { h \in 1..Len(CATALOG_HEADERS) :
        \A i \in 1..Len(fieldnames(text)) : fieldnames(text)[i] # CATALOG_HEADERS[h] }

\* the mapping CatalogRepository.load returns: empty when there is no file
load_records(file) ==
    IF file = None THEN <<>>
    ELSE LET names == fieldnames(Val(file))
             rows == dict_rows(Val(file)) IN
         keyed_records([i \in 1..Len(rows) |-> build_catalog_record(names, rows[i])])

\* what a catalog holds for a cell: untouched text with quotes and a comma, an
\* answered question with a two-line answer, a default answer, an instruction
\* whose text has a line break and ends in a quote
QuotedText == <<"a","\"","b","\"",",","c">>
TwoLineAnswer == <<"x",",","\n","\"","y">>
BrokenText == <<"i","\n","\"">>

StoredRecords(key) ==
    { CatalogRecord(key[1], key[2], QuotedText, None, None, None),
      [CatalogRecord(key[1], key[2], QuestionText, Some(TRUE),
                     Some(TwoLineAnswer), Some(OldLocation))
         EXCEPT !.is_default_answer = Some(FALSE), !.is_instruction = Some(FALSE)],
      [CatalogRecord(key[1], key[2], DefaultText, Some(FALSE), None, None)
         EXCEPT !.is_default_answer = Some(TRUE),
                !.default_answer_question_location = Some(QuestionLocations[1])],
      [CatalogRecord(key[1], key[2], BrokenText, None, None, None)
         EXCEPT !.is_instruction = Some(TRUE)] }

\* what the catalog file held before: nothing, or an older catalog
OlderCatalog == Some(save_text(<< CatalogRecord(SheetName, OldLocation, QuestionText,
                                                None, None, None) >>))

RoundTripInit ==
    /\ SessionIdle
    /\ config = <<>>
    /\ base_records = <<>>
    /\ existing_records = <<>>
    /\ merged_records \in CatalogsOf(UNION { StoredRecords(k) : k \in MergeKeys },
                                     MaxCatalogRecords)
    /\ catalog_file \in { None, OlderCatalog }
    /\ files = <<>>
    /\ app_pc = "save"
    /\ exit_code = <<>>
    /\ stdout = <<>>
    /\ runs = 0

\* self._repository.save(catalog_path, merged_records)
save_call ==
    /\ app_pc = "save"
    /\ catalog_file' = Some(save_text(merged_records))
    /\ app_pc' = "saved"
    /\ UNCHANGED <<config, base_records, existing_records, merged_records,
                   files, exit_code, stdout, runs>>
    /\ UNCHANGED session_vars

\* existing_records = self._repository.load(catalog_path)
load_call ==
    /\ app_pc = "saved"
    /\ IF catalog_file # None /\ missing_headers(Val(catalog_file)) # {}
       THEN /\ app_pc' = "ValueError"
            /\ UNCHANGED existing_records
       ELSE /\ app_pc' = "loaded"
            /\ existing_records' = load_records(catalog_file)
    /\ UNCHANGED <<config, base_records, merged_records, catalog_file,
                   files, exit_code, stdout, runs>>
    /\ UNCHANGED session_vars

RoundTripNext ==
    \/ save_call
    \/ load_call

RoundTripSpec == RoundTripInit /\ [][RoundTripNext]_vars

\* C18: once a catalog of N records with distinct keys was saved, loading it
\* succeeds and gives the same N records in the same order, each equal to the
\* saved one in every field.
C18_CatalogRoundTrip ==
    /\ app_pc # "ValueError"
    /\ app_pc = "loaded" => existing_records = merged_records

\* two records came back: one with unset booleans and quotes in its text, one
\* with a false boolean and a two-line answer
C18_Witness ==
    /\ app_pc = "loaded"
    /\ Len(existing_records) = 2
    /\ existing_records[1].is_question = None
    /\ existing_records[1].text_value = QuotedText
    /\ existing_records[2].is_default_answer = Some(FALSE)
    /\ existing_records[2].is_question = Some(TRUE)
    /\ existing_records[2].text_response = Some(TwoLineAnswer)

-----------------------------------------------------------------------------
(* XLSXQuestionnaireApp.run and main: paths, files, the answer writer *)

\* runs of the program
MaxRuns == 2

SourcePath == <<"q",".","x","l","s","x">>
OtherOutputPath == <<"o",".","x","l","s","x">>
SnapshotPath == <<"p",".","j","s","o","n">>

\* s.rfind(c), counted from 1, 0 when c is not in s
rfind(s, c) ==
    LET at == { i \in 1..Len(s) : s[i] = c } IN
    IF at = {} THEN 0 ELSE CHOOSE i \in at : \A j \in at : j <= i

\* os.path.splitext: the extension starts at the last dot of the last path
\* component, unless only dots come before it there
splitext(path) ==
    LET sep == rfind(path, "/")
        dot == rfind(path, ".") IN
    IF dot > sep /\ \E k \in (sep + 1)..(dot - 1) : path[k] # "."
    THEN <<SubSeq(path, 1, dot - 1), SubSeq(path, dot, Len(path))>>
    ELSE <<path, <<>>>>

\* _default_catalog_path
default_catalog_path(source_path) ==
    splitext(source_path)[1] \o <<"_","c","a","t","a","l","o","g",".","c","s","v">>

\* _default_output_path
default_output_path(source_path) ==
    LET root == splitext(source_path)[1]
        ext == splitext(source_path)[2] IN
    root \o <<"_","a","n","s","w","e","r","e","d">> \o (IF ext # <<>> THEN ext ELSE <<".","x","l","s","x">>)

\* the cells of a workbook, sheet by sheet and row by row
ResponseLocations == << <<"A","A","3">>, <<"C","7">> >>
CellOrder ==
    << <<SheetName, QuestionLocations[2]>>, <<SheetName, ResponseLocations[1]>>,
       <<SheetName, QuestionLocations[1]>>, <<SheetName, ResponseLocations[2]>> >>

\* a workbook file: the text of each cell, the empty text for a blank cell
Workbook(cells) == [kind |-> "workbook", cells |-> cells]
cell_value(wb, cell) == IF cell \in DOMAIN wb.cells THEN wb.cells[cell] ELSE <<>>
sheetnames(wb) == { cell[1] : cell \in DOMAIN wb.cells }

\* a progress snapshot file recorded for the workbook source_name
ProgressSnapshot(source_name) == [kind |-> "snapshot", sourceFileBaseName |-> source_name]

\* the workbook's texts as catalog records, all text captured, in cell order
extract(wb) ==
    LET texts == SelectSeq(CellOrder, LAMBDA cell : cell_value(wb, cell) # <<>>) IN
    [i \in 1..Len(texts) |->
        CatalogRecord(texts[i][1], texts[i][2], cell_value(wb, texts[i]), None, None, None)]

\* question_candidates of run
question_candidates(merged) ==
    SelectSeq(merged, LAMBDA r : r.is_question = Some(TRUE) /\ ~Truthy(r.text_response))

\* answered_records of run
answered_records(merged) ==
    SelectSeq(merged, LAMBDA r : Truthy(r.text_response) /\ Truthy(r.text_response_location))

\* _build_default_answer_map: the last record flagged for a location wins
build_default_answer_map(rs) ==
    LET flagged == SelectSeq(rs, LAMBDA r : /\ r.is_default_answer = Some(TRUE)
                                            /\ Truthy(r.default_answer_question_location)
                                            /\ r.text_value # <<>>) IN
    [loc \in { Val(flagged[i].default_answer_question_location) : i \in 1..Len(flagged) } |->
        flagged[CHOOSE i \in 1..Len(flagged) :
                  /\ Val(flagged[i].default_answer_question_location) = loc
                  /\ \A j \in 1..Len(flagged) :
                       Val(flagged[j].default_answer_question_location) = loc => j <= i
               ].text_value]

\* the candidates handed to the session are the objects of merged_records: what
\* the session assigned to them is seen through merged_records
session_view(merged, recs) ==
    [i \in 1..Len(merged) |->
        IF \E j \in 1..Len(recs) : catalog_key(recs[j]) = catalog_key(merged[i])
        THEN recs[CHOOSE j \in 1..Len(recs) : catalog_key(recs[j]) = catalog_key(merged[i])]
        ELSE merged[i]]

\* AnswerWriter._apply_answers
RECURSIVE apply_answers(_, _)
apply_answers(wb, rs) ==
    IF rs = <<>> THEN wb
    ELSE LET record == rs[1] IN
         IF ~Truthy(record.text_response) \/ ~Truthy(record.text_response_location)
         THEN apply_answers(wb, Tail(rs))
         ELSE IF record.tab_name \notin sheetnames(wb)
         THEN apply_answers(wb, Tail(rs))
         ELSE apply_answers(
                Workbook((<<record.tab_name, Val(record.text_response_location)>>
                             :> Val(record.text_response)) @@ wb.cells),
                Tail(rs))


\* target_path = output_path or _default_output_path(filepath)
target_path(filepath, output_path) ==
    IF Truthy(output_path) THEN Val(output_path) ELSE default_output_path(filepath)

\* AnswerWriter.write_answers: the files after workbook.save(target_path)
write_answers(fs, filepath, rs, output_path) ==
    (target_path(filepath, output_path) :> apply_answers(fs[filepath], rs)) @@ fs

\* the workbook of the runs: two texts, no answer written yet
SourceWorkbook ==
    Workbook([cell \in { CellOrder[i] : i \in 1..Len(CellOrder) } |->
                IF cell = CellOrder[1] THEN QuestionText
                ELSE IF cell = CellOrder[3] THEN FreshText
                ELSE <<>>])

\* the files before the first run: the workbook, a workbook without text, or
\* a file that is no workbook, with a progress snapshot of another workbook
Files ==
    { (SourcePath :> wb) @@ (SnapshotPath :> ProgressSnapshot(OtherOutputPath)) :
        wb \in { SourceWorkbook,
                 Workbook([cell \in {CellOrder[1]} |-> <<>>]),
                 ProgressSnapshot(SourcePath) } }
    \cup { (SnapshotPath :> ProgressSnapshot(OtherOutputPath)) }

\* the command lines: no option, the answers sent to another file or to the
\* source itself, a progress snapshot to resume from
Configs ==
    { [source_path |-> SourcePath, output_path |-> o, resume_path |-> r,
       catalog_path |-> None] :
        <<o, r>> \in { <<None, None>>, <<Some(OtherOutputPath), Some(SnapshotPath)>>,
                       <<Some(SourcePath), None>> } }

\* the catalog before the first run: none, or the catalog of an earlier run
\* in which the operator flagged both texts as questions (left unanswered, or
\* both answered) and added a text as the default answer of B7
FlaggedCatalog(answered) ==
    << CatalogRecord(SheetName, QuestionLocations[2], QuestionText, Some(TRUE),
                     IF answered THEN Some(OldAnswer) ELSE None,
                     IF answered THEN Some(ResponseLocations[1]) ELSE None),
       CatalogRecord(SheetName, QuestionLocations[1], FreshText, Some(TRUE),
                     IF answered THEN Some(TwoLineAnswer) ELSE None,
                     IF answered THEN Some(ResponseLocations[2]) ELSE None),
       [CatalogRecord(OtherSheet, QuestionLocations[1], DefaultText, Some(FALSE), None, None)
          EXCEPT !.is_default_answer = Some(TRUE),
                 !.default_answer_question_location = Some(QuestionLocations[1])] >>

Catalogs ==
    { None, Some(save_text(FlaggedCatalog(FALSE))), Some(save_text(FlaggedCatalog(TRUE))) }

\* the console lines of the runs
AppFirstLines == { <<>>, <<"q">>, <<"s">>, <<"a">> }
AppMoreLines == { <<>> }
AppLocationLines == { <<>>, <<"q">> }

AppInit ==
    /\ SessionIdle
    /\ config \in Configs
    /\ base_records = <<>>
    /\ existing_records = <<>>
    /\ merged_records = <<>>
    /\ catalog_file \in Catalogs
    /\ files \in Files
    /\ app_pc = "start"
    /\ exit_code = None
    /\ stdout = <<>>
    /\ runs = 0

\* a process that runs no session
no_session ==
    /\ question_records' = <<>>
    /\ records' = <<>>
    /\ default_answers' = <<>>
    /\ start_index' = 0
    /\ index' = 0
    /\ pc' = "idle"
    /\ header' = 0
    /\ default_answer' = None
    /\ lines' = <<>>
    /\ empty_streak' = 0
    /\ raw_input' = <<>>
    /\ reads' = 0
    /\ prompt_result' = None
    /\ suggestion' = <<>>
    /\ location' = None
    /\ result' = None
    /\ cycles' = 0

\* the process ends before any session
exit_before_session(code, messages) ==
    /\ no_session
    /\ app_pc' = "exited"
    /\ exit_code' = Some(code)
    /\ stdout' = messages

writes_after_session_always(aborted) == TRUE

\* if result.aborted: ... return 0, before write_answers is reached
writes_after_session(aborted) == ~aborted

\* run, from the return of session.run to its own return
after_session ==
    LET merged == session_view(merged_records, records')
        aborted == Val(result').aborted IN
    /\ merged_records' = merged
    /\ catalog_file' = Some(save_text(merged))
    /\ IF writes_after_session(aborted)
       THEN /\ files' = write_answers(files, config.source_path, merged, config.output_path)
            /\ stdout' = stdout \o <<"Catalog saved to", "Answers written to">>
       ELSE /\ files' = files
            /\ stdout' = Append(stdout, "Session aborted by user. Catalog saved to")
    /\ exit_code' = Some(0)
    /\ app_pc' = "exited"
    /\ UNCHANGED <<config, base_records, existing_records, runs>>

\* run goes on when session.run has returned
session_step_then_run ==
    IF pc' = "done" THEN after_session ELSE UNCHANGED app_vars

\* run returns, or an exception leaves it, before the catalog is read
no_catalog_read ==
    /\ base_records' = <<>>
    /\ existing_records' = <<>>
    /\ merged_records' = <<>>
    /\ UNCHANGED <<catalog_file, files>>

\* run, from the call of session.run to the first console read
start_session(candidates, defaults) ==
    /\ files' = files
    /\ app_pc' = "session"
    /\ exit_code' = None
    /\ stdout' = <<"Catalog saved to", "Found unanswered questions">>
    /\ question_records' = candidates
    /\ records' = candidates
    /\ default_answers' = defaults
    /\ start_index' = 0
    /\ loop_test_after(initial_index(0), defaults, 0)
    /\ raw_input' = <<>>
    /\ reads' = 0
    /\ suggestion' = <<>>

\* run, from the save of the merged catalog on
run_merged(merged, candidates) ==
    /\ merged_records' = merged
    /\ catalog_file' = Some(save_text(merged))
    /\ IF candidates = <<>>
       THEN IF answered_records(merged) # <<>>
            THEN /\ files' = write_answers(files, config.source_path, merged,
                                           config.output_path)
                 /\ exit_before_session(0, <<"Catalog saved to", "Answers written to">>)
            ELSE /\ files' = files
                 /\ exit_before_session(0, <<"Catalog saved to",
                                             "No unanswered questions flagged in catalog.">>)
       ELSE start_session(candidates, build_default_answer_map(merged))

\* run, from the merge on
run_loaded(merged) == run_merged(merged, question_candidates(merged))

\* run, once the workbook's texts are extracted
run_extracted(base) ==
    IF base = <<>>
    THEN exit_before_session(1, <<"No textual entries found in workbook.">>)
         /\ no_catalog_read
    ELSE IF catalog_file # None /\ missing_headers(Val(catalog_file)) # {}
    THEN \* ValueError leaves run and main
         /\ exit_before_session(1, <<>>)
         /\ base_records' = base
         /\ UNCHANGED <<existing_records, merged_records, catalog_file, files>>
    ELSE /\ base_records' = base
         /\ existing_records' = load_records(catalog_file)
         /\ run_loaded(merge_records(base, existing_records'))

\* main in a new process: run from its call to the first console read of the
\* session, or to the end of the process when no session is started
app_run ==
    /\ app_pc \in {"start", "exited"}
    /\ runs < MaxRuns
    /\ runs' = runs + 1
    /\ UNCHANGED config
    /\ IF config.source_path \notin DOMAIN files
       THEN exit_before_session(1, <<"Workbook not found">>) /\ no_catalog_read
       ELSE IF files[config.source_path].kind # "workbook"
       THEN exit_before_session(1, <<"Unable to open workbook">>) /\ no_catalog_read
       ELSE run_extracted(extract(files[config.source_path]))

app_answer_first_line ==
    /\ app_pc = "session"
    /\ \E raw \in AppFirstLines : lines = <<>> /\ prompt_answer_read(raw)
    /\ session_step_then_run

app_answer_more_line ==
    /\ app_pc = "session"
    /\ \E raw \in AppMoreLines : lines # <<>> /\ prompt_answer_read(raw)
    /\ session_step_then_run

app_location_line ==
    /\ app_pc = "session"
    /\ \E raw \in AppLocationLines : location_read(raw)
    /\ session_step_then_run

\* KeyboardInterrupt at a console read: main prints and returns 1
keyboard_interrupt ==
    /\ app_pc = "session"
    /\ pc \in {"answer", "location"}
    /\ pc' = "interrupted"
    /\ app_pc' = "exited"
    /\ exit_code' = Some(1)
    /\ stdout' = Append(stdout, "Session interrupted.")
    /\ UNCHANGED <<config, base_records, existing_records, merged_records,
                   catalog_file, files, runs>>
    /\ UNCHANGED <<question_records, records, default_answers, start_index, index,
                   header, default_answer, lines, empty_streak, raw_input, reads,
                   prompt_result, suggestion, location, result, cycles>>

AppNext ==
    \/ app_run
    \/ app_answer_first_line
    \/ app_answer_more_line
    \/ app_location_line
    \/ keyboard_interrupt

AppSpec == AppInit /\ [][AppNext]_vars

-----------------------------------------------------------------------------
(* Properties of the runs *)

\* the step in which a run called write_answers and printed its path
AnswersWritten ==
    /\ (runs' # runs \/ app_pc = "session")
    /\ app_pc' = "exited"
    /\ stdout' # <<>>
    /\ stdout'[Len(stdout')] = "Answers written to"

\* every record of the session is in the catalog file as it stands
SessionRecordsSaved(file, recs) ==
    /\ file # None
    /\ missing_headers(Val(file)) = {}
    /\ \A j \in 1..Len(recs) :
         \E i \in 1..Len(load_records(file)) : load_records(file)[i] = recs[j]

\* C14 as stated: the session saves nothing; when it returns aborted the run
\* saves the catalog with every committed answer, writes no workbook and exits
\* with 0; answers are written only at the end of a completed session, after
\* the catalog save.
C14_AbortSavesAndExitsAsStated ==
    [][ /\ (app_pc = "session" /\ app_pc' = "session")
           => (catalog_file' = catalog_file /\ files' = files)
        /\ (app_pc = "session" /\ pc' = "done" /\ Val(result').aborted)
           => /\ app_pc' = "exited"
              /\ exit_code' = Some(0)
              /\ files' = files
              /\ ~AnswersWritten
              /\ SessionRecordsSaved(catalog_file', records')
        /\ AnswersWritten
           => /\ catalog_file' = Some(save_text(merged_records'))
              /\ app_pc = "session"
              /\ pc' = "done"
              /\ ~Val(result').aborted ]_vars

\* C14: the session saves nothing; when it returns aborted the run saves the
\* catalog with every committed answer, writes no workbook and exits with 0;
\* answers are written only after the catalog save, and never by a run whose
\* session was aborted: at the end of a completed session, or by a run that
\* starts no session.
C14_AbortSavesAndExits ==
    [][ /\ (app_pc = "session" /\ app_pc' = "session")
           => (catalog_file' = catalog_file /\ files' = files)
        /\ (app_pc = "session" /\ pc' = "done" /\ Val(result').aborted)
           => /\ app_pc' = "exited"
              /\ exit_code' = Some(0)
              /\ files' = files
              /\ ~AnswersWritten
              /\ SessionRecordsSaved(catalog_file', records')
        /\ AnswersWritten
           => /\ catalog_file' = Some(save_text(merged_records'))
              /\ \/ app_pc = "session" /\ pc' = "done" /\ ~Val(result').aborted
                 \/ app_pc # "session" /\ pc' = "idle" ]_vars

\* the first question was answered, the second one quit: the run has ended
\* with 0 and the catalog file holds the answer
C14_Witness ==
    /\ app_pc = "exited"
    /\ pc = "done"
    /\ Val(result).aborted
    /\ Val(result).current_index = 1
    /\ exit_code = Some(0)
    /\ records[1].text_response = Some(<<"a">>)
    /\ stdout[Len(stdout)] = "Session aborted by user. Catalog saved to"
    /\ SessionRecordsSaved(catalog_file, records)

\* C15: after a session of at least two questions was quit with q on the
\* second question, the next run of the program on the same workbook first
\* prompts for that second question.
C15_ResumeAtSameQuestion ==
    [][ (/\ app_pc = "exited"
         /\ pc = "done"
         /\ Val(result).aborted
         /\ Len(records) >= 2
         /\ Val(result).current_index = 1
         /\ answer_command(raw_input) \in QuitTokens
         /\ runs' = runs + 1)
        => /\ app_pc' = "session"
           /\ pc' = "answer"
           /\ catalog_key(records'[index' + 1]) = catalog_key(records[2]) ]_vars

\* os.path.basename
basename(path) == SubSeq(path, rfind(path, "/") + 1, Len(path))

\* --resume names a progress snapshot recorded for another source file
ResumeMismatch ==
    /\ Truthy(config.resume_path)
    /\ Val(config.resume_path) \in DOMAIN files
    /\ files[Val(config.resume_path)].kind = "snapshot"
    /\ files[Val(config.resume_path)].sourceFileBaseName # basename(config.source_path)

\* C16: a run given a progress snapshot of another source file ends with exit
\* code 1 without starting a session.
C16_ResumeMismatchRefused ==
    (ResumeMismatch /\ runs > 0)
    => /\ app_pc = "exited"
       /\ exit_code = Some(1)
       /\ pc = "idle"

\* C17: whenever the session prompts for a question, or was interrupted at a
\* prompt, every answer committed in it so far is in the catalog file.
C17_CatalogSavedEveryIteration ==
    ((app_pc = "session" /\ pc = "answer") \/ pc = "interrupted")
    => \A j \in 1..Len(records) :
         records[j].text_response # question_records[j].text_response
         => /\ catalog_file # None
            /\ \E i \in 1..Len(load_records(catalog_file)) :
                 load_records(catalog_file)[i] = records[j]

\* C19: a run that writes answers saves them to a path other than the source
\* path and leaves the source file as it was.
C19_SourceNeverOverwritten ==
    [][ AnswersWritten
        => /\ target_path(config.source_path, config.output_path) # config.source_path
           /\ files'[config.source_path] = files[config.source_path] ]_vars

-----------------------------------------------------------------------------
(* The suggested response location, over the cell coordinates of a sheet: a
   session over one unanswered question whose answer is typed and whose
   location prompt is reached *)

\* letters in a column name
MaxColumnLen == 2

ColumnLetters == {"A", "B", "Y", "Z"}

\* the column names of at most MaxColumnLen letters over ColumnLetters
SuggestColumns == UNION { [1..n -> ColumnLetters] : n \in 1..MaxColumnLen }

SuggestRows == { <<"7">>, <<"3">>, <<"1","2">> }

SuggestInit ==
    /\ AppIdle
    /\ \E col \in SuggestColumns, row \in SuggestRows :
         question_records = << CatalogRecord(SheetName, col \o row, QuestionText,
                                             Some(TRUE), None, None) >>
    /\ records = question_records
    /\ default_answers = <<>>
    /\ start_index = 0
    /\ index = 0
    /\ pc = "start"
    /\ header = 0
    /\ default_answer = None
    /\ lines = <<>>
    /\ empty_streak = 0
    /\ raw_input = <<>>
    /\ reads = 0
    /\ prompt_result = None
    /\ suggestion = <<>>
    /\ location = None
    /\ result = None
    /\ cycles = 0

\* an answer is typed
suggest_first_line == lines = <<>> /\ prompt_answer_read(<<"a">>)

\* and finished with blank lines
suggest_more_line == lines # <<>> /\ prompt_answer_read(<<>>)

\* the suggested response location is accepted with an empty line
suggest_location_line == location_read(<<>>)

SuggestNext ==
    \/ run_start /\ UNCHANGED app_vars
    \/ suggest_first_line /\ UNCHANGED app_vars
    \/ suggest_more_line /\ UNCHANGED app_vars
    \/ suggest_location_line /\ UNCHANGED app_vars

SuggestSpec == SuggestInit /\ [][SuggestNext]_vars

\* the 1-based number of a column letter
LetterNumber(c) == CHOOSE k \in 1..26 : UpperLetters[k] = c

\* the column number of a column name, A = 1, Z = 26, AA = 27: the letters are
\* the digits 1..26 of a base-26 numeral with no zero digit
RECURSIVE ColumnNumber(_)
ColumnNumber(cs) ==
    IF cs = <<>> THEN 0
    ELSE LetterNumber(cs[1]) * 26 ^ (Len(cs) - 1) + ColumnNumber(Tail(cs))

IsColumnName(cs) ==
    cs # <<>> /\ \A i \in 1..Len(cs) : \E k \in 1..26 : UpperLetters[k] = cs[i]

\* what the location prompt of the question at col, row suggests is next, row
SuggestsNextColumn(col, row, next) ==
    (pc = "location" /\ records[index + 1].text_location = col \o row)
        => suggestion = next \o row

\* C21: for a question at column col and row row with no response location,
\* the location prompt suggests a column name whose column number is one more
\* than that of col, followed by the same row (B7 suggests C7, Z3 suggests
\* AA3, AZ12 suggests BA12, ZZ7 suggests AAA7), and an empty line commits the
\* suggestion as the response location.
C21_ColumnIncrement ==
    /\ \A col \in SuggestColumns, row \in SuggestRows :
         (pc \in {"location", "done"} /\ records[1].text_location = col \o row)
            => /\ Len(suggestion) > Len(row)
               /\ SubSeq(suggestion, Len(suggestion) - Len(row) + 1, Len(suggestion)) = row
               /\ LET letters == SubSeq(suggestion, 1, Len(suggestion) - Len(row)) IN
                  /\ IsColumnName(letters)
                  /\ ColumnNumber(letters) = ColumnNumber(col) + 1
               /\ pc = "done" => records[1].text_response_location = Some(suggestion)
    /\ SuggestsNextColumn(<<"B">>, <<"7">>, <<"C">>)
    /\ SuggestsNextColumn(<<"Z">>, <<"3">>, <<"A","A">>)
    /\ SuggestsNextColumn(<<"A","Z">>, <<"1","2">>, <<"B","A">>)
    /\ SuggestsNextColumn(<<"Z","Z">>, <<"7">>, <<"A","A","A">>)

\* the prompt of the question at ZZ7 is open and suggests AAA7
C21_Witness ==
    /\ pc = "location"
    /\ records[1].text_location = <<"Z","Z","7">>
    /\ suggestion = <<"A","A","A","7">>

-----------------------------------------------------------------------------
(* Control words typed after the first line of an answer: a session over two
   unanswered questions *)

\* lines of an answer after which a control word may still be typed
MaxTokenLines == 2

\* first lines: an answer, a blank that is not empty, a skip
TokenFirstLines == { <<"a">>, <<" ">>, <<"s">> }

\* the control words, and the empty line that finishes an answer
ControlWords ==
    { <<"q">>, <<"q","u","i","t">>, <<"b">>, <<"b","a","c","k">>,
      <<"s">>, <<"s","k","i","p">> }

TokenInit ==
    /\ AppIdle
    /\ question_records
         = << CatalogRecord(SheetName, QuestionLocations[1], QuestionText,
                            Some(TRUE), None, None),
              CatalogRecord(SheetName, QuestionLocations[2], QuestionText,
                            Some(TRUE), None, None) >>
    /\ records = question_records
    /\ default_answers \in { DefaultAnswers, <<>> }
    /\ start_index = 0
    /\ index = 0
    /\ pc = "start"
    /\ header = 0
    /\ default_answer = None
    /\ lines = <<>>
    /\ empty_streak = 0
    /\ raw_input = <<>>
    /\ reads = 0
    /\ prompt_result = None
    /\ suggestion = <<>>
    /\ location = None
    /\ result = None
    /\ cycles = 0

token_first_line ==
    \E raw \in TokenFirstLines : lines = <<>> /\ prompt_answer_read(raw)

\* a control word typed as a later line
token_word_line ==
    \E raw \in ControlWords :
        lines # <<>> /\ Len(lines) <= MaxTokenLines /\ prompt_answer_read(raw)

\* an empty later line
token_empty_line == lines # <<>> /\ prompt_answer_read(<<>>)

\* the suggested response location is accepted with an empty line
token_location_line == location_read(<<>>)

TokenNext ==
    \/ run_start /\ UNCHANGED app_vars
    \/ token_first_line /\ UNCHANGED app_vars
    \/ token_word_line /\ UNCHANGED app_vars
    \/ token_empty_line /\ UNCHANGED app_vars
    \/ token_location_line /\ UNCHANGED app_vars

TokenSpec == TokenInit /\ [][TokenNext]_vars

\* the line just read is one of the six control words
ReadControlWord ==
    \/ raw_input' = <<"q">>
    \/ raw_input' = <<"q","u","i","t">>
    \/ raw_input' = <<"b">>
    \/ raw_input' = <<"b","a","c","k">>
    \/ raw_input' = <<"s">>
    \/ raw_input' = <<"s","k","i","p">>

\* the lines of ls that are control words, in order
WordsIn(ls) == SelectSeq(ls, LAMBDA l : l \in ControlWords)

\* the lines of the text s that are control words, in order
RECURSIVE WordsOfText(_)
WordsOfText(s) ==
    IF s = <<>> THEN <<>>
    ELSE LET ends == { i \in 1..Len(s) : s[i] = "\n" }
             stop == IF ends = {} THEN Len(s) + 1
                     ELSE CHOOSE i \in ends : \A j \in ends : i <= j
             first == SubSeq(s, 1, stop - 1)
             rest == IF stop > Len(s) THEN <<>> ELSE WordsOfText(SubSeq(s, stop + 1, Len(s)))
         IN IF first \in ControlWords THEN <<first>> \o rest ELSE rest

\* C22: once a line has been collected at the answer prompt of a question, a
\* line equal to q, quit, b, back, s or skip is appended to the collected
\* lines as it was typed: the prompt stays open on the same question, run does
\* not return, the cursor and the records are unchanged; and when the answer
\* is committed every such line is a line of the committed text.
C22_ControlWordsFirstLineOnly ==
    [][ /\ (pc = "answer" /\ lines # <<>> /\ reads' = reads + 1 /\ ReadControlWord)
           => /\ pc' = "answer"
              /\ index' = index
              /\ result' = None
              /\ records' = records
              /\ lines' = Append(lines, raw_input')
        /\ (pc = "location" /\ records' # records /\ WordsIn(lines) # <<>>)
           => /\ Truthy(records'[index + 1].text_response)
              /\ WordsOfText(Val(records'[index + 1].text_response)) = WordsIn(lines) ]_vars

\* the first question was answered with the lines a, quit, q and the session
\* went on to the second question
C22_Witness ==
    /\ pc = "answer"
    /\ index = 1
    /\ records[1].text_response
         = Some(<<"a","\n","q","u","i","t","\n","q">>)

-----------------------------------------------------------------------------
(* Sessions in which back is never entered *)

ProgressFirstLines == AnswerFirstLines \ { LineBack }

ProgressLocationLines == LocationLines \ { LineLocBack }

progress_first_line ==
    \E raw \in ProgressFirstLines : lines = <<>> /\ prompt_answer_read(raw)

progress_location_line ==
    \E raw \in ProgressLocationLines : location_read(raw)

ProgressNext ==
    \/ run_start /\ UNCHANGED app_vars
    \/ progress_first_line /\ UNCHANGED app_vars
    \/ answer_more_line /\ UNCHANGED app_vars
    \/ progress_location_line /\ UNCHANGED app_vars

ProgressSpec == Init /\ [][ProgressNext]_vars

Min(a, b) == IF a <= b THEN a ELSE b

\* a line was read and the prompt cycle of the question at the cursor is over:
\* run returned, or the next question was rendered
CycleEnds == reads' = reads + 1 /\ (pc' = "done" \/ cycles' # cycles)

\* the session was quit at the question at the cursor
CycleQuits ==
    /\ pc' = "done"
    /\ Val(result').aborted
    /\ Val(result').current_index = index
    /\ index' = index

\* the cursor went on by one: to the next question, or past the last one
CycleAdvances ==
    /\ index' = index + 1
    /\ IF index + 1 < Len(records)
       THEN pc' = "answer" /\ cycles' = cycles + 1 /\ header' = index + 2
       ELSE pc' = "done" /\ cycles' = cycles /\ ~Val(result').aborted

\* question cycles a session of records rs started with start has at most: the
\* questions from the cursor it starts at, which lies in 0..N
CyclesLeftAtStart(rs, start) == Len(rs) - Min(Len(rs), Max(0, start))

\* run has entered no more than the N - start_index question cycles
C24_SessionProgressAsStated ==
    pc = "done" => cycles <= Len(records) - start_index

\* C24: in a session where back is never entered, every prompt cycle that ends
\* either ends the session with aborted at the same cursor or moves the cursor
\* on by exactly one, and run never enters more question cycles than there are
\* questions from the cursor it starts at (start_index brought into 0..N) to
\* the last one.
C24_SessionProgress ==
    /\ [][ CycleEnds => (CycleQuits \/ CycleAdvances) ]_vars
    /\ [](cycles <= CyclesLeftAtStart(records, start_index))

\* a session started before the first question went through every question,
\* one cycle each, committed an answer and returned completed
C24_Witness ==
    /\ pc = "done"
    /\ start_index = -1
    /\ ~Val(result).aborted
    /\ cycles = NumRecords
    /\ records # question_records

=============================================================================
